---- MODULE Spec2Model ----
(***************************************************************************)
(* A model of tss_calculator.py: argument validation, the two ingestion    *)
(* paths (FitParser over decoded frames, JsonParser over workout plans),   *)
(* the NormalizedPowerCalculator and calculate_tss.                        *)
(*                                                                         *)
(* Numbers.  TLC has integers only.  A JSON value is a tagged record: an   *)
(* int carries its value, a float carries its value in hundredths (so 1.5  *)
(* is JFloat(150) and 0.03 minutes is JFloat(3)), a string carries its     *)
(* text.  Powers are kept in hundredths of a watt, which makes             *)
(* multiplier * ftp exact (0.61 * 250 W is 15250).  Products and quotients *)
(* are the exact rational ones; binary floating point error is not         *)
(* modelled (on the durations used below, int(minutes * 60) in Python      *)
(* gives the same counts).  The values computed after the rolling averages *)
(* (4th powers, their mean, the 4th root, IF and TSS) exceed TLC's         *)
(* integers and are kept as terms over their arguments; which step raises  *)
(* is exact.                                                               *)
(*                                                                         *)
(* A Python value that may be None is a sequence: <<>> is None, <<v>> is v.*)
(***************************************************************************)
EXTENDS Integers, Sequences, FiniteSets, TLC

VARIABLES
    pc,                     \* position of the run
    ftp,                    \* arguments.ftp
    data,                   \* arguments.data[0]: the files, in order
    error,                  \* the uncaught exception that ended the run, or "none"
    fileIdx,                \* files opened so far by the active parser
    blockIdx,               \* items of the open file consumed so far
    total_duration,         \* parser._total_duration
    power_readings,         \* parser._power_readings
    rolling_averages,       \* NormalizedPowerCalculator._rolling_averages
    raised_to_4th_power,    \* NormalizedPowerCalculator._raised_to_4th_power
    raised_values_average,  \* NormalizedPowerCalculator._raised_values_average
    result,                 \* NormalizedPowerCalculator._result
    intensity_factor,       \* calculate_tss: intensity_factor
    training_stress_score,  \* calculate_tss: training_stress_score
    printed,                \* lines of the result table printed so far
    power_zone,             \* argument of a direct zone lookup
    target_power            \* what that lookup returned

vars == <<pc, ftp, data, error, fileIdx, blockIdx, total_duration, power_readings,
          rolling_averages, raised_to_4th_power, raised_values_average, result,
          intensity_factor, training_stress_score, printed, power_zone, target_power>>

parserVars == <<fileIdx, blockIdx, total_duration, power_readings>>
calcVars == <<rolling_averages, raised_to_4th_power, raised_values_average, result,
              intensity_factor, training_stress_score, printed>>
zoneVars == <<power_zone, target_power>>

(***************************************************************************)
(* JSON values as json.load delivers them.                                 *)
(***************************************************************************)
JInt(i) == [t |-> "int", i |-> i]
JFloat(h) == [t |-> "float", h |-> h]
JStr(s) == [t |-> "str", s |-> s]

IsNumber(v) == v.t \in {"int", "float"}

\* The value of a number, in hundredths.
Hundredths(v) == IF v.t = "int" THEN 100 * v.i ELSE v.h

(***************************************************************************)
(* Program constants.                                                      *)
(***************************************************************************)
valid_ftp_min == 100
valid_ftp_max == 400
window_size == 30
table_rows == 6

ZoneLabels == {"S1", "S2", "S3", "SST", "S4", "S5"}

\* power_zones_to_power, each factor times 100.
power_zones_to_power ==
    [z \in ZoneLabels |->
        CASE z = "S1" -> 50
          [] z = "S2" -> 61
          [] z = "S3" -> 88
          [] z = "SST" -> 91
          [] z = "S4" -> 98
          [] z = "S5" -> 113]

(***************************************************************************)
(* JsonParser: the zone lookup.  A lookup returns a value (it never        *)
(* raises); logged tells whether logging.error was called.  The label is   *)
(* the text of a string value.                                             *)
(***************************************************************************)
find_power_at_power_zone_nonzero(threshold, label) ==
    IF label \notin DOMAIN power_zones_to_power
    THEN [raised |-> FALSE, value |-> 100 * threshold, logged |-> TRUE]
    ELSE [raised |-> FALSE, value |-> power_zones_to_power[label] * threshold,
          logged |-> FALSE]

find_power_at_power_zone(threshold, label) ==
    IF label \notin DOMAIN power_zones_to_power
    THEN [raised |-> FALSE, value |-> 0, logged |-> TRUE]
    ELSE [raised |-> FALSE, value |-> power_zones_to_power[label] * threshold,
          logged |-> FALSE]

(***************************************************************************)
(* JsonParser: the validator.  A check returns "True" or "False", or       *)
(* "TypeError" when the Python expression raises on the value's type.      *)
(***************************************************************************)
\* lambda type: len(type) > 1
type_check(v) ==
    IF v.t # "str" THEN "TypeError"
    ELSE IF Len(v.s) > 1 THEN "True" ELSE "False"

\* lambda integer: integer > 0
repeats_check(v) ==
    IF ~IsNumber(v) THEN "TypeError"
    ELSE IF Hundredths(v) > 0 THEN "True" ELSE "False"

duration_is_valid_no_lower_bound(v) ==
    IF ~IsNumber(v) THEN "TypeError"
    ELSE IF Hundredths(v) < 400 * 100 THEN "True" ELSE "False"

duration_is_valid(v) ==
    IF ~IsNumber(v) THEN "TypeError"
    ELSE IF Hundredths(v) > 0 /\ Hundredths(v) < 400 * 100 THEN "True" ELSE "False"

power_zone_is_valid(v) ==
    IF v.t = "str" /\ v.s \in {"S1", "S2", "S3", "SST", "S4", "S5"}
    THEN "True" ELSE "False"

check_callback(id, v) ==
    CASE id = "type" -> type_check(v)
      [] id = "repeats" -> repeats_check(v)
      [] id = "duration" -> duration_is_valid(v)
      [] id = "zone" -> power_zone_is_valid(v)

validate_field(name, workout_block, id) ==
    IF name \notin DOMAIN workout_block THEN "False"
    ELSE check_callback(id, workout_block[name])

\* checks: the dict of the call, in insertion order, as <<field name, check>> pairs.
RECURSIVE validate_fields(_, _)
validate_fields(workout_block, checks) ==
    IF checks = <<>> THEN "True"
    ELSE LET r == validate_field(Head(checks)[1], workout_block, Head(checks)[2])
         IN IF r = "True" THEN validate_fields(workout_block, Tail(checks)) ELSE r

validate_block_type_steady(workout_block) ==
    validate_fields(workout_block,
        << <<"duration", "duration">>, <<"powerZone", "zone">> >>)

validate_block_type_interval(workout_block) ==
    validate_fields(workout_block,
        << <<"repeats", "repeats">>,
           <<"workDuration", "duration">>,
           <<"restDuration", "duration">>,
           <<"workPowerZone", "zone">>,
           <<"restPowerZone", "zone">> >>)

validate_workout_block(workout_block) ==
    LET r == validate_field("type", workout_block, "type")
    IN IF r # "True" THEN r
       ELSE IF workout_block["type"].s = "steady"
            THEN validate_block_type_steady(workout_block)
       ELSE IF workout_block["type"].s = "interval"
            THEN validate_block_type_interval(workout_block)
       ELSE "False"

(***************************************************************************)
(* JsonParser: the synthesizer.  st is the pair of accumulators,           *)
(* [total_duration, power_readings].                                       *)
(***************************************************************************)
\* int(minutes * 60) with the nearest integer instead of truncation.
convert_minutes_to_seconds_rounding(minutes) ==
    (Hundredths(minutes) * 60 + 50) \div 100

\* int(minutes * 60): int() truncates toward zero.
convert_minutes_to_seconds(minutes) ==
    LET p == Hundredths(minutes) * 60
    IN IF p >= 0 THEN p \div 100 ELSE -((-p) \div 100)

\* [power] * duration_in_seconds; a negative count gives the empty list.
generate_power_readings_steady(duration_in_seconds, power) ==
    [i \in 1..duration_in_seconds |-> power]

parse_workout_block_steady(st, duration_in_minutes, zone) ==
    LET duration_in_seconds == convert_minutes_to_seconds(duration_in_minutes)
        target == find_power_at_power_zone(ftp, zone.s).value
    IN [total_duration |-> st.total_duration + duration_in_seconds,
        power_readings |-> st.power_readings \o
            generate_power_readings_steady(duration_in_seconds, target)]

\* The body of "for _ in range(repeats)", n repetitions left.
RECURSIVE interval_loop(_, _, _)
interval_loop(st, workout_block, n) ==
    IF n <= 0 THEN st
    ELSE interval_loop(
            parse_workout_block_steady(
                parse_workout_block_steady(st, workout_block["workDuration"],
                                           workout_block["workPowerZone"]),
                workout_block["restDuration"], workout_block["restPowerZone"]),
            workout_block, n - 1)

\* range(repeats) raises TypeError unless repeats is an int.
parse_workout_block_interval(st, workout_block) ==
    LET repeats == workout_block["repeats"]
    IN IF repeats.t # "int" THEN [st |-> st, err |-> "TypeError"]
       ELSE [st |-> interval_loop(st, workout_block, repeats.i), err |-> "none"]

parse_workout_block(st, workout_block) ==
    IF workout_block["type"].s = "steady"
    THEN [st |-> parse_workout_block_steady(st, workout_block["duration"],
                                            workout_block["powerZone"]),
          err |-> "none"]
    ELSE IF workout_block["type"].s = "interval"
    THEN parse_workout_block_interval(st, workout_block)
    ELSE [st |-> st, err |-> "none"]

\* A steady block whose expansion is defined although the validator rejects it.
RejectedButExpandable(workout_block) ==
    /\ "type" \in DOMAIN workout_block
    /\ workout_block["type"] = JStr("steady")
    /\ {"duration", "powerZone"} \subseteq DOMAIN workout_block
    /\ IsNumber(workout_block["duration"])
    /\ Hundredths(workout_block["duration"]) < 400 * 100
    /\ workout_block["powerZone"].t = "str"

\* The loop body of parse_file without its "continue".
parse_file_body_missing_continue(st, workout_block) ==
    LET v == validate_workout_block(workout_block)
    IN IF v = "TypeError" THEN [st |-> st, err |-> "TypeError"]
       ELSE IF v = "False" /\ ~RejectedButExpandable(workout_block)
            THEN [st |-> st, err |-> "none"]
       ELSE parse_workout_block(st, workout_block)

\* The loop body of parse_file for one block: validate, then skip or expand.
parse_file_body(st, workout_block) ==
    LET v == validate_workout_block(workout_block)
    IN IF v = "TypeError" THEN [st |-> st, err |-> "TypeError"]
       ELSE IF v = "False" THEN [st |-> st, err |-> "none"]
       ELSE parse_workout_block(st, workout_block)

(***************************************************************************)
(* FitParser.  A frame is a record: frame_type, and for the frames that    *)
(* have them a name and the fields (a function from field names to         *)
(* values).  st is the pair of accumulators.                               *)
(***************************************************************************)
has_field(frame, field_name) == field_name \in DOMAIN frame.fields

get_value(frame, field_name) == frame.fields[field_name]

parse_frame_session_overwrite(st, frame) ==
    IF has_field(frame, "total_elapsed_time")
    THEN [st EXCEPT !.total_duration = get_value(frame, "total_elapsed_time")]
    ELSE st

parse_frame_session(st, frame) ==
    IF has_field(frame, "total_elapsed_time")
    THEN [st EXCEPT !.total_duration = @ + get_value(frame, "total_elapsed_time")]
    ELSE st

parse_frame_record(st, frame) ==
    IF has_field(frame, "power")
    THEN [st EXCEPT !.power_readings = Append(@, get_value(frame, "power"))]
    ELSE st

parse_frame(st, frame) ==
    IF frame.frame_type # "data" THEN st
    ELSE LET s1 == IF frame.name = "session" THEN parse_frame_session(st, frame)
                   ELSE st
         IN IF frame.name = "record" THEN parse_frame_record(s1, frame) ELSE s1

(***************************************************************************)
(* NormalizedPowerCalculator and the two metric functions.                 *)
(***************************************************************************)
RECURSIVE SumSeq(_)
SumSeq(s) == IF s = <<>> THEN 0 ELSE Head(s) + SumSeq(Tail(s))

\* round(num / den, 2) of a value kept in hundredths: the nearest hundredth,
\* an exact tie going to the even neighbour (num >= 0, den > 0).
python_round(num, den) ==
    LET q == num \div den
        r == num % den
    IN IF 2 * r < den THEN q
       ELSE IF 2 * r > den THEN q + 1
       ELSE IF q % 2 = 0 THEN q ELSE q + 1

\* The while loop of _calculate_rolling_average; index counts from 0.
RECURSIVE rolling_loop(_, _, _)
rolling_loop(input_data, index, averages) ==
    IF index <= Len(input_data) - window_size
    THEN rolling_loop(input_data, index + 1,
            Append(averages,
                   python_round(SumSeq(SubSeq(input_data, index + 1, index + window_size)),
                                window_size)))
    ELSE averages

\* The same loop with "<" for "<=".
RECURSIVE rolling_loop_strict(_, _, _)
rolling_loop_strict(input_data, index, averages) ==
    IF index < Len(input_data) - window_size
    THEN rolling_loop_strict(input_data, index + 1,
            Append(averages,
                   python_round(SumSeq(SubSeq(input_data, index + 1, index + window_size)),
                                window_size)))
    ELSE averages

calculate_rolling_average_strict(input_data) == rolling_loop_strict(input_data, 0, <<>>)

calculate_rolling_average(input_data) == rolling_loop(input_data, 0, <<>>)

raise_to_4th_power(averages) ==
    [i \in 1..Len(averages) |-> [pow |-> 4, base |-> averages[i]]]

\* sum(raised) / len(raised), with 0 for an empty list.
find_average_of_raised_values_defaulting(raised) ==
    IF Len(raised) = 0
    THEN [err |-> "none", value |-> <<[mean_of |-> <<[pow |-> 4, base |-> 0]>>]>>]
    ELSE [err |-> "none", value |-> <<[mean_of |-> raised]>>]

\* sum(raised) / len(raised): ZeroDivisionError for an empty list.
find_average_of_raised_values(raised) ==
    IF Len(raised) = 0
    THEN [err |-> "ZeroDivisionError", value |-> <<>>]
    ELSE [err |-> "none", value |-> <<[mean_of |-> raised]>>]

find_4th_root_of_average(average) == [round2 |-> [root4_of |-> average]]

find_intensity_factor(normalized_power, threshold) ==
    [round2 |-> [num |-> normalized_power, den |-> threshold]]

find_training_stres_score(duration, normalized_power, factor, threshold) ==
    [round1 |-> [duration |-> duration, np |-> normalized_power,
                 factor |-> factor, ftp |-> threshold]]

(***************************************************************************)
(* input_arguments_are_valid.  A file is a record: whether os.path.isfile  *)
(* holds, the extension its name ends with, and its decoded content.       *)
(***************************************************************************)
RECURSIVE files_loop(_, _)
files_loop(files, actual_file_type) ==
    IF files = <<>> THEN TRUE
    ELSE LET file == Head(files)
         IN IF ~file.exists THEN FALSE
            ELSE IF file.ext \notin {".fit", ".json"} THEN FALSE
            ELSE IF actual_file_type = <<>>
                 THEN files_loop(Tail(files), <<file.ext>>)
            ELSE IF actual_file_type # <<file.ext>> THEN FALSE
            ELSE files_loop(Tail(files), actual_file_type)

input_arguments_are_valid(threshold, files) ==
    IF threshold < valid_ftp_min \/ threshold > valid_ftp_max THEN FALSE
    ELSE files_loop(files, <<>>)

(***************************************************************************)
(* Inputs.  The options are tuples, chosen by index.                       *)
(***************************************************************************)
MaxBlocks == 2
MaxFrames == 3
MaxFiles == 2
MaxLen == 32

Steady(d, z) == [type |-> JStr("steady"), duration |-> d, powerZone |-> JStr(z)]

Interval(r, wd, wz, rd, rz) ==
    [type |-> JStr("interval"), repeats |-> r,
     workDuration |-> wd, workPowerZone |-> JStr(wz),
     restDuration |-> rd, restPowerZone |-> JStr(rz)]

BlockOptions ==
    << Steady(JFloat(3), "S1"),            \* 0.03 min: 1.8 s
       Steady(JFloat(5), "S2"),            \* 0.05 min: 3 s
       Steady(JFloat(1), "S3"),            \* 0.01 min: 0.6 s
       Steady(JFloat(4), "SST"),           \* 0.04 min: 2.4 s
       Steady(JFloat(7), "S4"),            \* 0.07 min: 4.2 s
       Steady(JInt(1), "S5"),              \* 1 min
       Steady(JInt(0), "S1"),
       Steady(JFloat(-3), "S1"),
       Steady(JInt(400), "S1"),
       Steady(JFloat(3), "S9"),
       Steady(JStr("ten"), "S1"),
       [type |-> JStr("steady"), powerZone |-> JStr("S1")],
       [duration |-> JFloat(3), powerZone |-> JStr("S1")],
       [type |-> JStr("ramp"), duration |-> JFloat(3), powerZone |-> JStr("S1")],
       [type |-> JStr("s"), duration |-> JFloat(3), powerZone |-> JStr("S1")],
       [type |-> JInt(5), duration |-> JFloat(3), powerZone |-> JStr("S1")],
       Interval(JInt(2), JFloat(3), "S5", JFloat(5), "S1"),
       Interval(JInt(1), JFloat(5), "S4", JFloat(1), "S2"),
       Interval(JFloat(150), JFloat(3), "S5", JFloat(5), "S1"),
       Interval(JInt(0), JFloat(3), "S5", JFloat(5), "S1"),
       Interval(JStr("3"), JFloat(3), "S5", JFloat(5), "S1"),
       Interval(JInt(2), JFloat(3), "S5", JInt(400), "S1"),
       Interval(JInt(2), JFloat(3), "S7", JFloat(5), "S1"),
       [type |-> JStr("interval"), workDuration |-> JStr("ten"),
        workPowerZone |-> JStr("S5"), restDuration |-> JFloat(5),
        restPowerZone |-> JStr("S1")],
       [type |-> JStr("interval"), repeats |-> JInt(2),
        workDuration |-> JFloat(3), workPowerZone |-> JStr("S5"),
        restDuration |-> JFloat(5)] >>

DataFrame(name, fields) == [frame_type |-> "data", name |-> name, fields |-> fields]

FrameOptions ==
    << DataFrame("session", [total_elapsed_time |-> 5]),
       DataFrame("session", [total_elapsed_time |-> 7, power |-> 30000]),
       DataFrame("session", [sport |-> 2]),
       DataFrame("record", [power |-> 15000]),
       DataFrame("record", [power |-> 25000, total_elapsed_time |-> 9]),
       DataFrame("record", [heart_rate |-> 140]),
       DataFrame("lap", [total_elapsed_time |-> 5, power |-> 20000]),
       [frame_type |-> "definition", name |-> "session",
        fields |-> [total_elapsed_time |-> 5]],
       [frame_type |-> "definition", name |-> "record", fields |-> [power |-> 15000]],
       [frame_type |-> "header"] >>

File(exists, ext, content) == [exists |-> exists, ext |-> ext, content |-> content]

\* The sequences over 1..n of length at most k.
SeqsUpTo(n, k) == UNION {[1..m -> 1..n] : m \in 0..k}

\* The items chosen by idx, in one file or cut into two after the k-th.
FilesOf(options, idx, ext, two, k) ==
    LET items == [i \in 1..Len(idx) |-> options[idx[i]]]
    IN IF two
       THEN << File(TRUE, ext, SubSeq(items, 1, k)),
               File(TRUE, ext, SubSeq(items, k + 1, Len(items))) >>
       ELSE << File(TRUE, ext, items) >>

\* m samples of a followed by n samples of b.
TwoRuns(a, m, b, n) == [i \in 1..(m + n) |-> IF i <= m THEN a ELSE b]

PowerSamples == {0, 10000, 10100, 15250}

\* A recording of the readings s, its session frame first.
Recording(s, elapsed) ==
    << DataFrame("session", [total_elapsed_time |-> elapsed]) >> \o
    [i \in 1..Len(s) |-> DataFrame("record", [power |-> s[i]])]

FileOptions ==
    << File(TRUE, ".fit", Recording(TwoRuns(15000, 20, 25000, 11), 31)),
       File(TRUE, ".fit", Recording(TwoRuns(15000, 2, 25000, 1), 3)),
       File(TRUE, ".json", << Steady(JFloat(50), "S1"),
                              [type |-> JStr("steady"), powerZone |-> JStr("S1")],
                              Steady(JFloat(5), "S5") >>),
       File(TRUE, ".json", << Steady(JFloat(49), "S2") >>),
       File(FALSE, ".json", <<>>),
       File(TRUE, ".txt", <<>>) >>

FtpArguments == {99, 100, 250, 400, 401}

FtpValues == {100, 150, 200, 250, 300, 350, 400}

LabelArguments == ZoneLabels \cup {"S9", "s1", "S6", ""}

(***************************************************************************)
(* Initial states.                                                         *)
(***************************************************************************)
FreshParser ==
    /\ fileIdx = 0
    /\ blockIdx = 0
    /\ total_duration = 0
    /\ power_readings = <<>>

FreshCalculator ==
    /\ rolling_averages = <<>>
    /\ raised_to_4th_power = <<>>
    /\ raised_values_average = <<>>
    /\ result = <<>>
    /\ intensity_factor = <<>>
    /\ training_stress_score = <<>>
    /\ printed = 0

NoLookup ==
    /\ power_zone = ""
    /\ target_power = <<>>

\* The process after parse_input_arguments.
Init ==
    /\ pc = "start"
    /\ ftp \in FtpArguments
    /\ \E idx \in SeqsUpTo(Len(FileOptions), MaxFiles) :
          data = [i \in 1..Len(idx) |-> FileOptions[idx[i]]]
    /\ error = "none"
    /\ FreshParser /\ FreshCalculator /\ NoLookup

\* read_data_from_json_files after it has built its parser.
InitJson ==
    /\ pc = "json_files"
    /\ ftp \in {100, 250}
    /\ \E idx \in SeqsUpTo(Len(BlockOptions), MaxBlocks), two \in BOOLEAN :
          \E k \in (IF two THEN 0..Len(idx) ELSE {0}) :
             data = FilesOf(BlockOptions, idx, ".json", two, k)
    /\ error = "none"
    /\ FreshParser /\ FreshCalculator /\ NoLookup

\* read_data_from_fit_files after it has built its parser.
InitFit ==
    /\ pc = "fit_files"
    /\ ftp = 250
    /\ \E idx \in SeqsUpTo(Len(FrameOptions), MaxFrames), two \in BOOLEAN :
          \E k \in (IF two THEN 0..Len(idx) ELSE {0}) :
             data = FilesOf(FrameOptions, idx, ".fit", two, k)
    /\ error = "none"
    /\ FreshParser /\ FreshCalculator /\ NoLookup

\* The call of calculate_tss on the readings of one recording.
InitCalc ==
    /\ pc = "calc"
    /\ ftp \in {100, 250}
    /\ \E a \in PowerSamples, b \in PowerSamples, m \in 0..MaxLen :
          \E n \in 0..(MaxLen - m) :
             /\ power_readings = TwoRuns(a, m, b, n)
             /\ data = << File(TRUE, ".fit", Recording(power_readings, m + n)) >>
             /\ total_duration = m + n
             /\ blockIdx = m + n + 1
    /\ fileIdx = 1
    /\ error = "none"
    /\ FreshCalculator /\ NoLookup

\* A call of the zone lookup on a parser built for ftp.
InitZone ==
    /\ pc = "zone_call"
    /\ ftp \in FtpValues
    /\ power_zone \in LabelArguments
    /\ target_power = <<>>
    /\ data = <<>>
    /\ error = "none"
    /\ FreshParser /\ FreshCalculator

(***************************************************************************)
(* The main program.                                                       *)
(***************************************************************************)
Accumulators == [total_duration |-> total_duration, power_readings |-> power_readings]

CurrentFile == data[fileIdx]

\* if not input_arguments_are_valid(input_arguments): exit()
ValidateArguments ==
    /\ pc = "start"
    /\ pc' = IF input_arguments_are_valid(ftp, data) THEN "dispatch" ELSE "exit"
    /\ UNCHANGED <<ftp, data, error, parserVars, calcVars, zoneVars>>

\* first_file = input_arguments.data[0][0] and the choice of the reader, which
\* builds its parser.  With neither extension both values stay None and
\* calculate_tss raises on len(None).
Dispatch ==
    /\ pc = "dispatch"
    /\ IF data = <<>>
       THEN pc' = "crashed" /\ error' = "IndexError"
       ELSE IF data[1].ext = ".fit"
            THEN pc' = "fit_files" /\ error' = error
       ELSE IF data[1].ext = ".json"
            THEN pc' = "json_files" /\ error' = error
       ELSE pc' = "crashed" /\ error' = "TypeError"
    /\ UNCHANGED <<ftp, data, parserVars, calcVars, zoneVars>>

(***************************************************************************)
(* read_data_from_fit_files and FitParser.parse_file.                      *)
(***************************************************************************)
FitOpenFile ==
    /\ pc = "fit_files"
    /\ fileIdx < Len(data)
    /\ fileIdx' = fileIdx + 1
    /\ blockIdx' = 0
    /\ pc' = "fit_frames"
    /\ UNCHANGED <<ftp, data, error, total_duration, power_readings, calcVars, zoneVars>>

FitParseFrame ==
    /\ pc = "fit_frames"
    /\ blockIdx < Len(CurrentFile.content)
    /\ LET st == parse_frame(Accumulators, CurrentFile.content[blockIdx + 1])
       IN /\ total_duration' = st.total_duration
          /\ power_readings' = st.power_readings
    /\ blockIdx' = blockIdx + 1
    /\ UNCHANGED <<pc, ftp, data, error, fileIdx, calcVars, zoneVars>>

FitCloseFile ==
    /\ pc = "fit_frames"
    /\ blockIdx = Len(CurrentFile.content)
    /\ pc' = "fit_files"
    /\ UNCHANGED <<ftp, data, error, parserVars, calcVars, zoneVars>>

FitReturn ==
    /\ pc = "fit_files"
    /\ fileIdx = Len(data)
    /\ pc' = "calc"
    /\ UNCHANGED <<ftp, data, error, parserVars, calcVars, zoneVars>>

(***************************************************************************)
(* read_data_from_json_files and JsonParser.parse_file.                    *)
(***************************************************************************)
JsonOpenFile ==
    /\ pc = "json_files"
    /\ fileIdx < Len(data)
    /\ fileIdx' = fileIdx + 1
    /\ blockIdx' = 0
    /\ pc' = "json_blocks"
    /\ UNCHANGED <<ftp, data, error, total_duration, power_readings, calcVars, zoneVars>>

\* One iteration of "for workout_block in json_content"; an exception leaves
\* the loop and ends the run.
JsonParseBlock ==
    /\ pc = "json_blocks"
    /\ blockIdx < Len(CurrentFile.content)
    /\ LET r == parse_file_body(Accumulators, CurrentFile.content[blockIdx + 1])
       IN /\ total_duration' = r.st.total_duration
          /\ power_readings' = r.st.power_readings
          /\ IF r.err = "none"
             THEN /\ blockIdx' = blockIdx + 1
                  /\ UNCHANGED <<pc, error>>
             ELSE /\ pc' = "crashed"
                  /\ error' = r.err
                  /\ UNCHANGED blockIdx
    /\ UNCHANGED <<ftp, data, fileIdx, calcVars, zoneVars>>

JsonCloseFile ==
    /\ pc = "json_blocks"
    /\ blockIdx = Len(CurrentFile.content)
    /\ pc' = "json_files"
    /\ UNCHANGED <<ftp, data, error, parserVars, calcVars, zoneVars>>

JsonReturn ==
    /\ pc = "json_files"
    /\ fileIdx = Len(data)
    /\ pc' = "calc"
    /\ UNCHANGED <<ftp, data, error, parserVars, calcVars, zoneVars>>

(***************************************************************************)
(* calculate_tss: the calculator's four steps, the two metrics, the table. *)
(***************************************************************************)
CalculateRollingAverage ==
    /\ pc = "calc"
    /\ rolling_averages' = calculate_rolling_average(power_readings)
    /\ pc' = "np_raise"
    /\ UNCHANGED <<ftp, data, error, parserVars, raised_to_4th_power,
                   raised_values_average, result, intensity_factor,
                   training_stress_score, printed, zoneVars>>

RaiseTo4thPower ==
    /\ pc = "np_raise"
    /\ raised_to_4th_power' = raise_to_4th_power(rolling_averages)
    /\ pc' = "np_average"
    /\ UNCHANGED <<ftp, data, error, parserVars, rolling_averages,
                   raised_values_average, result, intensity_factor,
                   training_stress_score, printed, zoneVars>>

FindAverageOfRaisedValues ==
    /\ pc = "np_average"
    /\ LET r == find_average_of_raised_values(raised_to_4th_power)
       IN /\ raised_values_average' = r.value
          /\ error' = r.err
          /\ pc' = IF r.err = "none" THEN "np_root" ELSE "crashed"
    /\ UNCHANGED <<ftp, data, parserVars, rolling_averages, raised_to_4th_power,
                   result, intensity_factor, training_stress_score, printed, zoneVars>>

Find4thRootOfAverage ==
    /\ pc = "np_root"
    /\ result' = << find_4th_root_of_average(raised_values_average[1]) >>
    /\ pc' = "if"
    /\ UNCHANGED <<ftp, data, error, parserVars, rolling_averages, raised_to_4th_power,
                   raised_values_average, intensity_factor, training_stress_score,
                   printed, zoneVars>>

FindIntensityFactor ==
    /\ pc = "if"
    /\ intensity_factor' = << find_intensity_factor(result[1], ftp) >>
    /\ pc' = "tss"
    /\ UNCHANGED <<ftp, data, error, parserVars, rolling_averages, raised_to_4th_power,
                   raised_values_average, result, training_stress_score, printed,
                   zoneVars>>

FindTrainingStressScore ==
    /\ pc = "tss"
    /\ training_stress_score' =
          << find_training_stres_score(total_duration, result[1],
                                       intensity_factor[1], ftp) >>
    /\ pc' = "print"
    /\ UNCHANGED <<ftp, data, error, parserVars, rolling_averages, raised_to_4th_power,
                   raised_values_average, result, intensity_factor, printed, zoneVars>>

\* The rule, the rows of the table and the closing rule.
PrintTable ==
    /\ pc = "print"
    /\ printed' = table_rows + 2
    /\ pc' = "done"
    /\ UNCHANGED <<ftp, data, error, parserVars, rolling_averages, raised_to_4th_power,
                   raised_values_average, result, intensity_factor,
                   training_stress_score, zoneVars>>

(***************************************************************************)
(* A direct call of JsonParser._find_power_at_power_zone.                  *)
(***************************************************************************)
ZoneLookup ==
    /\ pc = "zone_call"
    /\ target_power' = << find_power_at_power_zone(ftp, power_zone) >>
    /\ pc' = "zone_returned"
    /\ UNCHANGED <<ftp, data, error, parserVars, calcVars, power_zone>>

(***************************************************************************)
(* Specifications.                                                         *)
(***************************************************************************)
NextFit == FitOpenFile \/ FitParseFrame \/ FitCloseFile \/ FitReturn

NextJson == JsonOpenFile \/ JsonParseBlock \/ JsonCloseFile \/ JsonReturn

NextCalc ==
    \/ CalculateRollingAverage
    \/ RaiseTo4thPower
    \/ FindAverageOfRaisedValues
    \/ Find4thRootOfAverage
    \/ FindIntensityFactor
    \/ FindTrainingStressScore
    \/ PrintTable

Next == ValidateArguments \/ Dispatch \/ NextFit \/ NextJson \/ NextCalc

Spec == Init /\ [][Next]_vars

SpecJson == InitJson /\ [][NextJson]_vars

SpecFit == InitFit /\ [][NextFit]_vars

SpecCalc == InitCalc /\ [][NextCalc]_vars

SpecZone == InitZone /\ [][ZoneLookup]_vars

(***************************************************************************)
(* Properties of the synthesis path (SpecJson).                            *)
(***************************************************************************)
\* The zone factors as the specification lists them, times 100.
ExpectedMultiplier(z) ==
    CASE z = "S1" -> 50
      [] z = "S2" -> 61
      [] z = "S3" -> 88
      [] z = "SST" -> 91
      [] z = "S4" -> 98
      [] z = "S5" -> 113

\* floor(d * 60) for a duration d in minutes.
FloorSeconds(d) == (Hundredths(d) * 60) \div 100

\* The state is inside the block loop with a block still to come.
AtBlock == pc = "json_blocks" /\ blockIdx < Len(CurrentFile.content)

\* The block the next iteration consumes, and the block the last one consumed.
NextBlock == CurrentFile.content[blockIdx + 1]
LastBlock == CurrentFile.content[blockIdx]

HasType(b, name) == "type" \in DOMAIN b /\ b["type"] = JStr(name)

Accepted(b) == validate_workout_block(b) = "True"
Rejected(b) == validate_workout_block(b) = "False"

\* The samples appended by the step, in order.
Appended == SubSeq(power_readings', Len(power_readings) + 1, Len(power_readings'))

\* The step keeps the samples it found, in place.
KeepsPrefix ==
    /\ Len(power_readings') >= Len(power_readings)
    /\ SubSeq(power_readings', 1, Len(power_readings)) = power_readings

\* C1: a steady block that passes validation, of duration d and zone z, appends
\* exactly floor(d*60) samples, each multiplier[z] * ftp, keeps the earlier
\* samples in place and adds the same floor(d*60) to the total duration.
C1_SteadyAppendsFloorSeconds ==
    [][(AtBlock /\ HasType(NextBlock, "steady") /\ Accepted(NextBlock)) =>
        LET n == FloorSeconds(NextBlock["duration"])
            p == ExpectedMultiplier(NextBlock["powerZone"].s) * ftp
        IN /\ KeepsPrefix
           /\ Len(Appended) = n
           /\ \A i \in 1..Len(Appended) : Appended[i] = p
           /\ total_duration' = total_duration + n
           /\ blockIdx' = blockIdx + 1
           /\ error' = "none"]_vars

\* A steady block of 0.03 minutes (1.8 s) was expanded onto earlier samples.
C1_Witness ==
    /\ pc = "json_blocks"
    /\ blockIdx >= 1
    /\ LastBlock = Steady(JFloat(3), "S1")
    /\ Len(power_readings) > 1
    /\ power_readings[Len(power_readings)] = 50 * ftp
    /\ power_readings[1] # 50 * ftp

\* C2, as stated: an interval block that passes validation, with repeats r,
\* appends exactly r * (floor(work_d*60) + floor(rest_d*60)) samples, each
\* repetition being its work samples followed by its rest samples.
C2_IntervalAppendsWorkThenRest ==
    [][(AtBlock /\ HasType(NextBlock, "interval") /\ Accepted(NextBlock)) =>
        LET w == FloorSeconds(NextBlock["workDuration"])
            r == FloorSeconds(NextBlock["restDuration"])
            wp == ExpectedMultiplier(NextBlock["workPowerZone"].s) * ftp
            rp == ExpectedMultiplier(NextBlock["restPowerZone"].s) * ftp
        IN /\ KeepsPrefix
           /\ 100 * Len(Appended) = Hundredths(NextBlock["repeats"]) * (w + r)
           /\ \A i \in 1..Len(Appended) :
                 Appended[i] = IF (i - 1) % (w + r) < w THEN wp ELSE rp]_vars

\* The same for the blocks whose repeats is an int.
IntegerRepeatsAppendWorkThenRest ==
    [][(AtBlock /\ HasType(NextBlock, "interval") /\ Accepted(NextBlock)
          /\ NextBlock["repeats"].t = "int") =>
        LET w == FloorSeconds(NextBlock["workDuration"])
            r == FloorSeconds(NextBlock["restDuration"])
            wp == ExpectedMultiplier(NextBlock["workPowerZone"].s) * ftp
            rp == ExpectedMultiplier(NextBlock["restPowerZone"].s) * ftp
        IN /\ KeepsPrefix
           /\ Len(Appended) = NextBlock["repeats"].i * (w + r)
           /\ \A i \in 1..Len(Appended) :
                 Appended[i] = IF (i - 1) % (w + r) < w THEN wp ELSE rp]_vars

RECURSIVE Concat(_)
Concat(ss) == IF ss = <<>> THEN <<>> ELSE Head(ss) \o Concat(Tail(ss))

\* Every block of the plan, over its files in order.
AllItems == Concat([i \in 1..Len(data) |-> data[i].content])

\* The blocks (or frames) consumed so far.
Consumed ==
    IF fileIdx = 0 THEN <<>>
    ELSE Concat([i \in 1..(fileIdx - 1) |-> data[i].content])
         \o SubSeq(CurrentFile.content, 1, blockIdx)

RECURSIVE RemoveRejected(_)
RemoveRejected(blocks) ==
    IF blocks = <<>> THEN <<>>
    ELSE IF Rejected(Head(blocks)) THEN RemoveRejected(Tail(blocks))
    ELSE <<Head(blocks)>> \o RemoveRejected(Tail(blocks))

\* The totals parse_file leaves after the blocks, from fresh accumulators; an
\* exception ends the plan there.
RECURSIVE TotalsFrom(_, _)
TotalsFrom(st, blocks) ==
    IF blocks = <<>> THEN st
    ELSE LET r == parse_file_body(st, Head(blocks))
         IN IF r.err # "none" THEN r.st ELSE TotalsFrom(r.st, Tail(blocks))

TotalsOf(blocks) == TotalsFrom([total_duration |-> 0, power_readings |-> <<>>], blocks)

\* C3: a block the validator rejects leaves both totals as they were and the
\* blocks after it are still processed: at every point of the run the totals
\* are those of the blocks consumed so far with the rejected ones removed, and
\* the final totals (at the return, or where an exception ended the run) are
\* those of the whole plan with its rejected blocks removed.
C3_RejectedBlocksContributeNothing ==
    /\ Accumulators = TotalsOf(RemoveRejected(Consumed))
    /\ pc = "calc" => Consumed = AllItems
    /\ pc \in {"calc", "crashed"} =>
          Accumulators = TotalsOf(RemoveRejected(AllItems))

\* A finished plan in which an expanded block follows a rejected one.
C3_Witness ==
    /\ pc = "calc"
    /\ Len(power_readings) > 0
    /\ \E i \in 1..Len(AllItems) :
          /\ Rejected(AllItems[i])
          /\ \E j \in (i + 1)..Len(AllItems) : Accepted(AllItems[j])

\* C9: in the synthesis path the total duration in seconds equals the number
\* of samples, in every state between blocks and between files.
C9_DurationEqualsSampleCount == total_duration = Len(power_readings)

\* Valid and invalid blocks of two files have been processed.
C9_Witness ==
    /\ pc = "json_blocks"
    /\ fileIdx = 2
    /\ blockIdx >= 1
    /\ Len(power_readings) > 0
    /\ Len(Consumed) = MaxBlocks
    /\ \E i \in 1..Len(Consumed) : Rejected(Consumed[i])

\* A block that is well-formed per its declared type.
WellFormedDuration(b, name) ==
    /\ name \in DOMAIN b
    /\ IsNumber(b[name])
    /\ Hundredths(b[name]) > 0
    /\ Hundredths(b[name]) < 400 * 100

WellFormedZone(b, name) ==
    /\ name \in DOMAIN b
    /\ b[name].t = "str"
    /\ b[name].s \in ZoneLabels

WellFormed(b) ==
    \/ /\ HasType(b, "steady")
       /\ WellFormedDuration(b, "duration")
       /\ WellFormedZone(b, "powerZone")
    \/ /\ HasType(b, "interval")
       /\ "repeats" \in DOMAIN b
       /\ b["repeats"].t = "int"
       /\ b["repeats"].i > 0
       /\ WellFormedDuration(b, "workDuration")
       /\ WellFormedDuration(b, "restDuration")
       /\ WellFormedZone(b, "workPowerZone")
       /\ WellFormedZone(b, "restPowerZone")

\* C10, as stated: every block is either well-formed, accepted and expanded
\* completely, or not well-formed, rejected and without effect; no block makes
\* the run fail.
C10_AcceptedOrRejectedOutright ==
    [][AtBlock =>
        \/ /\ WellFormed(NextBlock)
           /\ Accepted(NextBlock)
           /\ pc' = "json_blocks" /\ error' = "none" /\ blockIdx' = blockIdx + 1
        \/ /\ ~WellFormed(NextBlock)
           /\ Rejected(NextBlock)
           /\ pc' = "json_blocks" /\ error' = "none" /\ blockIdx' = blockIdx + 1
           /\ UNCHANGED <<total_duration, power_readings>>]_vars

(***************************************************************************)
(* Properties of the activity-file path (SpecFit).                         *)
(***************************************************************************)
CarriesDuration(f) ==
    /\ f.frame_type = "data"
    /\ f.name = "session"
    /\ "total_elapsed_time" \in DOMAIN f.fields

CarriesPower(f) ==
    /\ f.frame_type = "data"
    /\ f.name = "record"
    /\ "power" \in DOMAIN f.fields

\* The sum of total_elapsed_time over the session frames that carry it.
RECURSIVE SessionSeconds(_)
SessionSeconds(frames) ==
    IF frames = <<>> THEN 0
    ELSE (IF CarriesDuration(Head(frames))
          THEN Head(frames).fields["total_elapsed_time"] ELSE 0)
         + SessionSeconds(Tail(frames))

\* The power values of the record frames that carry one, in frame order.
RECURSIVE RecordPowers(_)
RecordPowers(frames) ==
    IF frames = <<>> THEN <<>>
    ELSE (IF CarriesPower(Head(frames))
          THEN <<Head(frames).fields["power"]>> ELSE <<>>)
         \o RecordPowers(Tail(frames))

\* C7: after any sequence of frames, over one or several files, the total
\* duration is the sum of total_elapsed_time over the data frames named
\* session that carry it, the power series is the power of the data frames
\* named record that carry one, in frame order, and no frame raises an error.
C7_FitTotalsFollowFrames ==
    /\ total_duration = SessionSeconds(Consumed)
    /\ power_readings = RecordPowers(Consumed)
    /\ error = "none"
    /\ pc \in {"fit_files", "fit_frames", "calc"}
    /\ pc = "calc" => Consumed = AllItems

\* Two session frames have added up, a record has been appended and a frame
\* that carries neither has been passed over, in two files.
C7_Witness ==
    /\ pc = "calc"
    /\ Len(data) = 2
    /\ Len(data[1].content) > 0
    /\ \E i \in 1..Len(AllItems) : \E j \in (i + 1)..Len(AllItems) :
          /\ CarriesDuration(AllItems[i])
          /\ CarriesDuration(AllItems[j])
          /\ total_duration = AllItems[i].fields["total_elapsed_time"]
                              + AllItems[j].fields["total_elapsed_time"]
    /\ \E i \in 1..Len(AllItems) :
          ~CarriesDuration(AllItems[i]) /\ ~CarriesPower(AllItems[i])

\* A record frame has been appended after a session frame that also has a
\* power field.
FitOrderWitness ==
    /\ pc = "calc"
    /\ Len(power_readings) = 2
    /\ power_readings[1] # power_readings[2]

(***************************************************************************)
(* Properties of calculate_tss (SpecCalc).                                 *)
(***************************************************************************)
\* C4: with fewer than 30 samples no Normalized Power, Intensity Factor or
\* Training Stress Score is ever produced, no line of the table is printed
\* and the run can only end in the uncaught ZeroDivisionError; in every run
\* the table is printed only after the three values were computed without
\* error.
C4_ShortSeriesIsFatal ==
    /\ Len(power_readings) < window_size =>
          /\ raised_values_average = <<>>
          /\ result = <<>>
          /\ intensity_factor = <<>>
          /\ training_stress_score = <<>>
          /\ printed = 0
          /\ pc \in {"calc", "np_raise", "np_average", "crashed"}
          /\ (~ENABLED NextCalc) => (pc = "crashed" /\ error = "ZeroDivisionError")
    /\ printed > 0 =>
          /\ result # <<>>
          /\ intensity_factor # <<>>
          /\ training_stress_score # <<>>
          /\ error = "none"

\* A run on 29 samples has ended in the error.
C4_Witness ==
    /\ Len(power_readings) = window_size - 1
    /\ pc = "crashed"
    /\ error = "ZeroDivisionError"
    /\ printed = 0

\* The state is past _calculate_rolling_average.
AveragesComputed == pc \notin {"calc"}

Window(i) == SubSeq(power_readings, i + 1, i + window_size)

ExpectedCount ==
    IF Len(power_readings) - (window_size - 1) > 0
    THEN Len(power_readings) - (window_size - 1) ELSE 0

\* The readings the recording holds: the series as it was handed over.
HandedOver == RecordPowers(data[1].content)

\* C6, as stated: the series of length n yields max(0, n - 29) averages, the
\* i-th (from 0) being the mean of series[i .. i+30), and is not modified.
C6_AveragesAreExactMeans ==
    AveragesComputed =>
        /\ Len(rolling_averages) = ExpectedCount
        /\ \A i \in 0..(Len(rolling_averages) - 1) :
              rolling_averages[i + 1] * window_size = SumSeq(Window(i))
        /\ power_readings = HandedOver

\* C6, amended: the i-th average is that mean rounded to 2 decimal digits,
\* that is, a hundredth at most half a hundredth away from the mean.
C6_AveragesAreRoundedMeans ==
    AveragesComputed =>
        /\ Len(rolling_averages) = ExpectedCount
        /\ \A i \in 0..(Len(rolling_averages) - 1) :
              LET diff == rolling_averages[i + 1] * window_size - SumSeq(Window(i))
              IN 2 * diff <= window_size /\ 2 * diff >= -window_size
        /\ power_readings = HandedOver

\* Three averages over 32 samples, the windows reaching into the second run,
\* a mean that is no whole number of hundredths among them.
C6_Witness ==
    /\ pc = "np_raise"
    /\ Len(power_readings) = window_size + 2
    /\ Len(rolling_averages) = 3
    /\ rolling_averages[1] # rolling_averages[3]
    /\ rolling_averages[3] * window_size # SumSeq(Window(2))

(***************************************************************************)
(* Properties of the zone lookup (SpecZone).                               *)
(***************************************************************************)
\* C5, as stated: for a label outside the six the lookup signals the zone
\* error instead of producing a power value; for each of the six it returns
\* threshold_power * multiplier[label].
C5_UnknownZoneSignalsError ==
    pc = "zone_returned" =>
        IF power_zone \in ZoneLabels
        THEN /\ ~target_power[1].raised
             /\ target_power[1].value = ExpectedMultiplier(power_zone) * ftp
        ELSE target_power[1].raised

\* C5, amended: for a label outside the six the lookup logs the zone error
\* and returns the power value 0, never a nonzero power; for each of the six
\* it returns threshold_power * multiplier[label].
C5_UnknownZoneLogsAndReturnsZero ==
    pc = "zone_returned" =>
        /\ ~target_power[1].raised
        /\ IF power_zone \in ZoneLabels
           THEN /\ target_power[1].value = ExpectedMultiplier(power_zone) * ftp
                /\ ~target_power[1].logged
           ELSE /\ target_power[1].value = 0
                /\ target_power[1].logged

\* The lookup of "S9" has returned.
C5_Witness ==
    /\ pc = "zone_returned"
    /\ power_zone = "S9"
    /\ target_power # <<>>
    /\ target_power[1].value = 0

(***************************************************************************)
(* Properties of the whole run (Spec).                                     *)
(***************************************************************************)
\* The arguments are valid: the threshold power in [100, 400], one or more
\* files, all existing, all .fit or all .json.
ArgumentsValid ==
    /\ ftp >= 100 /\ ftp <= 400
    /\ Len(data) >= 1
    /\ \A i \in 1..Len(data) : data[i].exists /\ data[i].ext \in {".fit", ".json"}
    /\ \A i \in 1..Len(data) : data[i].ext = data[1].ext

NothingParsedOrComputed ==
    /\ fileIdx = 0
    /\ total_duration = 0
    /\ power_readings = <<>>
    /\ rolling_averages = <<>>
    /\ result = <<>>
    /\ intensity_factor = <<>>
    /\ training_stress_score = <<>>
    /\ printed = 0

\* C8, as stated: with arguments that are not valid, input_arguments_are_valid
\* reports failure and the process exits before any file is parsed and before
\* any metric is computed or printed.
C8_InvalidArgumentsExit ==
    (~ArgumentsValid /\ pc # "start") => (pc = "exit" /\ NothingParsedOrComputed)

\* The same for the runs that name at least one file.
InvalidArgumentsExitGivenAFile ==
    (~ArgumentsValid /\ Len(data) >= 1 /\ pc # "start") =>
        (pc = "exit" /\ NothingParsedOrComputed)

\* Whatever input_arguments_are_valid answers, nothing is parsed or computed
\* on arguments that are not valid.
NothingOnInvalidArguments == ~ArgumentsValid => NothingParsedOrComputed

====
